---------------------------- MODULE Spec2Model ----------------------------
(***************************************************************************)
(* Order-management business case calculator                               *)
(* (src/order_management_business_case.py).                                *)
(*                                                                         *)
(* The scenario engine calculate_scenario, the six benefit calculators,    *)
(* get_benchmark_position and the consumers of a scenario result in main   *)
(* (metric card, scenario cards, comparison chart, executive summary).     *)
(*                                                                         *)
(* Numbers.  The program computes with Python floats; the model computes   *)
(* the same expressions, in the same order, over exact rationals <<n, d>>  *)
(* (d > 0, lowest terms), so a statement checked here is a statement about *)
(* the real-number value of each expression, not about its rounding.       *)
(* Python's None is the pair <<0, 0>>, which is no rational.               *)
(*                                                                         *)
(* Units.  Every formula of the engine is linear in the money amounts and  *)
(* in the order volume, so the input sets below are written in scaled      *)
(* units (orders in thousands, money amounts per order in tens of dollars, *)
(* totals in ten-thousands of dollars); rates, days, years and the         *)
(* scenario multipliers are unscaled.                                      *)
(***************************************************************************)
EXTENDS Integers, Sequences, FiniteSets, TLC

VARIABLES inputs, results, pc, shown, summary, call

vars == <<inputs, results, pc, shown, summary, call>>

(***************************************************************************)
(* Exact rational arithmetic (Python float expressions, without rounding). *)
(***************************************************************************)
Abs(x) == IF x < 0 THEN -x ELSE x

RECURSIVE GCD(_, _)
GCD(a, b) == IF b = 0 THEN a ELSE GCD(b, a % b)

Rat(n, d) ==
    LET g == GCD(Abs(n), Abs(d))
        s == IF d < 0 THEN -1 ELSE 1
    IN  <<s * (n \div g), s * (d \div g)>>

Num(n) == <<n, 1>>
Zero == <<0, 1>>
One == <<1, 1>>
None == <<0, 0>>

RNeg(x) == <<-x[1], x[2]>>

RAdd(x, y) ==
    LET g == GCD(x[2], y[2])
    IN  Rat(x[1] * (y[2] \div g) + y[1] * (x[2] \div g), x[2] * (y[2] \div g))

RSub(x, y) == RAdd(x, RNeg(y))

RMul(x, y) ==
    IF x[1] = 0 \/ y[1] = 0 THEN Zero
    ELSE LET g1 == GCD(Abs(x[1]), y[2])
             g2 == GCD(Abs(y[1]), x[2])
         IN  <<(x[1] \div g1) * (y[1] \div g2), (x[2] \div g2) * (y[2] \div g1)>>

\* x / y for y # 0; the callers model Python's ZeroDivisionError themselves.
RDiv(x, y) ==
    RMul(x, IF y[1] < 0 THEN <<-y[2], -y[1]>> ELSE <<y[2], y[1]>>)

RECURSIVE RPow(_, _)
RPow(x, k) == IF k = 0 THEN One ELSE RMul(x, RPow(x, k - 1))

RPos(x) == x[1] > 0
RNonNeg(x) == x[1] >= 0
RLe(x, y) == RNonNeg(RSub(y, x))
RLt(x, y) == RPos(RSub(y, x))
RAbs(x) == <<Abs(x[1]), x[2]>>
Floor(x) == IF x[1] >= 0 THEN x[1] \div x[2] ELSE -((-x[1] + x[2] - 1) \div x[2])

(***************************************************************************)
(* The benefit calculators.                                                *)
(***************************************************************************)
calculate_annual_revenue(volume, avg_value) == RMul(volume, avg_value)

\* Mutant of calculate_working_capital_benefit: a 360-day year.
calculate_working_capital_benefit_360(current_dso, target_dso, annual_revenue, wacc) ==
    LET current_ar == RMul(RDiv(current_dso, Num(360)), annual_revenue)
        target_ar == RMul(RDiv(target_dso, Num(360)), annual_revenue)
        cash_freed == RSub(current_ar, target_ar)
        annual_benefit == RMul(cash_freed, wacc)
    IN  [current_ar |-> current_ar,
         target_ar |-> target_ar,
         cash_freed |-> cash_freed,
         annual_benefit |-> annual_benefit,
         dso_improvement_days |-> RSub(current_dso, target_dso)]

calculate_working_capital_benefit(current_dso, target_dso, annual_revenue, wacc) ==
    LET current_ar == RMul(RDiv(current_dso, Num(365)), annual_revenue)
        target_ar == RMul(RDiv(target_dso, Num(365)), annual_revenue)
        cash_freed == RSub(current_ar, target_ar)
        annual_benefit == RMul(cash_freed, wacc)
    IN  [current_ar |-> current_ar,
         target_ar |-> target_ar,
         cash_freed |-> cash_freed,
         annual_benefit |-> annual_benefit,
         dso_improvement_days |-> RSub(current_dso, target_dso)]

calculate_error_reduction_benefit(current_perfect_rate, target_perfect_rate, order_volume, rework_cost) ==
    LET current_errors == RMul(order_volume, RSub(One, current_perfect_rate))
        target_errors == RMul(order_volume, RSub(One, target_perfect_rate))
        errors_eliminated == RSub(current_errors, target_errors)
        annual_savings == RMul(errors_eliminated, rework_cost)
    IN  [current_errors |-> current_errors,
         target_errors |-> target_errors,
         errors_eliminated |-> errors_eliminated,
         annual_savings |-> annual_savings,
         error_rate_improvement |->
             RSub(RSub(One, current_perfect_rate), RSub(One, target_perfect_rate))]

\* Mutant of calculate_revenue_leakage_benefit: the leakage left at the target is
\* not subtracted.
calculate_revenue_leakage_benefit_gross(current_leakage, target_leakage, annual_revenue, profit_margin) ==
    LET current_leakage_amount == RMul(annual_revenue, current_leakage)
        target_leakage_amount == RMul(annual_revenue, target_leakage)
        revenue_protected == current_leakage_amount
        profit_impact == RMul(revenue_protected, profit_margin)
    IN  [current_leakage_amount |-> current_leakage_amount,
         target_leakage_amount |-> target_leakage_amount,
         revenue_protected |-> revenue_protected,
         profit_impact |-> profit_impact,
         leakage_reduction |-> RSub(current_leakage, target_leakage)]

calculate_revenue_leakage_benefit(current_leakage, target_leakage, annual_revenue, profit_margin) ==
    LET current_leakage_amount == RMul(annual_revenue, current_leakage)
        target_leakage_amount == RMul(annual_revenue, target_leakage)
        revenue_protected == RSub(current_leakage_amount, target_leakage_amount)
        profit_impact == RMul(revenue_protected, profit_margin)
    IN  [current_leakage_amount |-> current_leakage_amount,
         target_leakage_amount |-> target_leakage_amount,
         revenue_protected |-> revenue_protected,
         profit_impact |-> profit_impact,
         leakage_reduction |-> RSub(current_leakage, target_leakage)]

calculate_labor_automation_benefit(current_stp_rate, target_stp_rate, order_volume, processing_time_minutes, hourly_rate) ==
    LET current_manual == RMul(order_volume, RSub(One, current_stp_rate))
        target_manual == RMul(order_volume, RSub(One, target_stp_rate))
        manual_touches_eliminated == RSub(current_manual, target_manual)
        hours_saved ==
            RDiv(RMul(manual_touches_eliminated, processing_time_minutes), Num(60))
        annual_savings == RMul(hours_saved, hourly_rate)
        fte_reduction == RDiv(hours_saved, Num(2080))
    IN  [current_manual_touches |-> current_manual,
         target_manual_touches |-> target_manual,
         touches_eliminated |-> manual_touches_eliminated,
         hours_saved |-> hours_saved,
         annual_savings |-> annual_savings,
         fte_reduction |-> fte_reduction,
         stp_improvement |-> RSub(target_stp_rate, current_stp_rate)]

\* Defined for current_cycle_time # 0; with 0 the first line raises
\* ZeroDivisionError (see calculate_scenario).
calculate_cycle_time_benefit(current_cycle_time, target_cycle_time, order_volume, avg_order_value, profit_margin, capacity_capture_rate) ==
    LET cycle_time_reduction_pct ==
            RDiv(RSub(current_cycle_time, target_cycle_time), current_cycle_time)
        additional_capacity == RMul(order_volume, cycle_time_reduction_pct)
        revenue_opportunity ==
            RMul(RMul(additional_capacity, avg_order_value), capacity_capture_rate)
        profit_impact == RMul(revenue_opportunity, profit_margin)
    IN  [cycle_time_reduction_days |-> RSub(current_cycle_time, target_cycle_time),
         cycle_time_reduction_pct |-> cycle_time_reduction_pct,
         additional_capacity_orders |-> additional_capacity,
         revenue_opportunity |-> revenue_opportunity,
         profit_impact |-> profit_impact,
         capacity_capture_rate |-> capacity_capture_rate]

\* Defined for current_cost # 0; with 0 the third line raises ZeroDivisionError.
calculate_cost_per_order_benefit(current_cost, target_cost, order_volume) ==
    LET cost_reduction == RSub(current_cost, target_cost)
        annual_savings == RMul(cost_reduction, order_volume)
        cost_reduction_pct == RDiv(cost_reduction, current_cost)
    IN  [cost_reduction_per_order |-> cost_reduction,
         cost_reduction_pct |-> cost_reduction_pct,
         annual_savings |-> annual_savings]

(***************************************************************************)
(* calculate_scenario.                                                     *)
(***************************************************************************)
Scenarios == {"best", "base", "worst"}

\* Mutant of scenario_multipliers: the worst case's performance mistyped.
scenario_multipliers_typo ==
    [best |-> [adoption |-> Rat(95, 100), performance |-> Rat(110, 100)],
     base |-> [adoption |-> Rat(75, 100), performance |-> Rat(100, 100)],
     worst |-> [adoption |-> Rat(50, 100), performance |-> Rat(180, 100)]]

scenario_multipliers ==
    [best |-> [adoption |-> Rat(95, 100), performance |-> Rat(110, 100)],
     base |-> [adoption |-> Rat(75, 100), performance |-> Rat(100, 100)],
     worst |-> [adoption |-> Rat(50, 100), performance |-> Rat(80, 100)]]

\* Mutant of adjusted_inputs: current_dso is copied from the target field.
adjusted_inputs_miscopied_dso(inp, perf) ==
    [inp EXCEPT
        !.target_dso =
            RSub(inp.current_dso, RMul(RSub(inp.current_dso, inp.target_dso), perf)),
        !.target_perfect_order_rate =
            RAdd(inp.current_perfect_order_rate,
                 RMul(RSub(inp.target_perfect_order_rate,
                           inp.current_perfect_order_rate), perf)),
        !.target_cycle_time =
            RSub(inp.current_cycle_time,
                 RMul(RSub(inp.current_cycle_time, inp.target_cycle_time), perf)),
        !.target_revenue_leakage =
            RSub(inp.current_revenue_leakage,
                 RMul(RSub(inp.current_revenue_leakage,
                           inp.target_revenue_leakage), perf)),
        !.target_cost_per_order =
            RSub(inp.current_cost_per_order,
                 RMul(RSub(inp.current_cost_per_order,
                           inp.target_cost_per_order), perf)),
        !.target_stp_rate =
            RAdd(inp.current_stp_rate,
                 RMul(RSub(inp.target_stp_rate, inp.current_stp_rate), perf)),
        !.current_dso = inp.target_dso]

\* Mutant of adjusted_inputs: the straight-through target moves away from the
\* original target instead of towards it.
adjusted_inputs_stp_reversed(inp, perf) ==
    [inp EXCEPT
        !.target_dso =
            RSub(inp.current_dso, RMul(RSub(inp.current_dso, inp.target_dso), perf)),
        !.target_perfect_order_rate =
            RAdd(inp.current_perfect_order_rate,
                 RMul(RSub(inp.target_perfect_order_rate,
                           inp.current_perfect_order_rate), perf)),
        !.target_cycle_time =
            RSub(inp.current_cycle_time,
                 RMul(RSub(inp.current_cycle_time, inp.target_cycle_time), perf)),
        !.target_revenue_leakage =
            RSub(inp.current_revenue_leakage,
                 RMul(RSub(inp.current_revenue_leakage,
                           inp.target_revenue_leakage), perf)),
        !.target_cost_per_order =
            RSub(inp.current_cost_per_order,
                 RMul(RSub(inp.current_cost_per_order,
                           inp.target_cost_per_order), perf)),
        !.target_stp_rate =
            RSub(inp.current_stp_rate,
                 RMul(RSub(inp.target_stp_rate, inp.current_stp_rate), perf))]

\* The FinancialInputs copy with the six targets moved by perf (lines 342-375).
adjusted_inputs(inp, perf) ==
    [inp EXCEPT
        !.target_dso =
            RSub(inp.current_dso, RMul(RSub(inp.current_dso, inp.target_dso), perf)),
        !.target_perfect_order_rate =
            RAdd(inp.current_perfect_order_rate,
                 RMul(RSub(inp.target_perfect_order_rate,
                           inp.current_perfect_order_rate), perf)),
        !.target_cycle_time =
            RSub(inp.current_cycle_time,
                 RMul(RSub(inp.current_cycle_time, inp.target_cycle_time), perf)),
        !.target_revenue_leakage =
            RSub(inp.current_revenue_leakage,
                 RMul(RSub(inp.current_revenue_leakage,
                           inp.target_revenue_leakage), perf)),
        !.target_cost_per_order =
            RSub(inp.current_cost_per_order,
                 RMul(RSub(inp.current_cost_per_order,
                           inp.target_cost_per_order), perf)),
        !.target_stp_rate =
            RAdd(inp.current_stp_rate,
                 RMul(RSub(inp.target_stp_rate, inp.current_stp_rate), perf))]

\* Mutant of total_annual_benefit: the cost-per-order savings summed in as well.
total_annual_benefit_with_cost(adoption, wc_benefit, error_benefit, leakage_benefit, labor_benefit, cycle_benefit, cost_benefit) ==
    RMul(adoption,
         RAdd(RAdd(RAdd(RAdd(RAdd(wc_benefit.annual_benefit,
                                  error_benefit.annual_savings),
                             leakage_benefit.profit_impact),
                        labor_benefit.annual_savings),
                   cycle_benefit.profit_impact),
              cost_benefit.annual_savings))

\* Lines 424-430: the adoption-adjusted sum of five of the six components.
total_annual_benefit(adoption, wc_benefit, error_benefit, leakage_benefit, labor_benefit, cycle_benefit, cost_benefit) ==
    RMul(adoption,
         RAdd(RAdd(RAdd(RAdd(wc_benefit.annual_benefit,
                             error_benefit.annual_savings),
                        leakage_benefit.profit_impact),
                   labor_benefit.annual_savings),
              cycle_benefit.profit_impact))

\* Mutant of discounted: simple instead of compound interest.
discounted_simple(net, wacc, year) == RDiv(net, RAdd(One, RMul(wacc, Num(year))))

\* net / ((1 + wacc) ** year)
discounted(net, wacc, year) == RDiv(net, RPow(RAdd(One, wacc), year))

\* Lines 436-453.
year0_record(adj, tab, adoption) ==
    LET year0_benefit == RMul(RMul(tab, Rat(15, 100)), adoption)
        year0_cost == RAdd(RMul(adj.initial_investment, Rat(30, 100)),
                           RMul(adj.change_management_cost, Rat(50, 100)))
        year0_net == RSub(year0_benefit, year0_cost)
    IN  [year |-> 0,
         phase |-> "Pilot",
         adoption_rate |-> RMul(Rat(15, 100), adoption),
         investment |-> year0_cost,
         maintenance |-> Zero,
         benefits |-> year0_benefit,
         net_cf |-> year0_net,
         cumulative_cf |-> year0_net,
         discounted_cf |-> discounted(year0_net, adj.wacc, 0)]

\* Mutant of year1_record: half of the integration cost, like the two costs
\* before it.
year1_record_half_integration(adj, tab, adoption, cumulative_cf) ==
    LET year1_benefit == RMul(RMul(tab, Rat(45, 100)), adoption)
        year1_cost == RAdd(RAdd(RMul(adj.initial_investment, Rat(50, 100)),
                                RMul(adj.change_management_cost, Rat(50, 100))),
                           RMul(adj.integration_cost, Rat(50, 100)))
        year1_maintenance == RMul(adj.annual_maintenance, Rat(5, 10))
        year1_net == RSub(RSub(year1_benefit, year1_cost), year1_maintenance)
    IN  [year |-> 1,
         phase |-> "Limited Production",
         adoption_rate |-> RMul(Rat(45, 100), adoption),
         investment |-> year1_cost,
         maintenance |-> year1_maintenance,
         benefits |-> year1_benefit,
         net_cf |-> year1_net,
         cumulative_cf |-> RAdd(cumulative_cf, year1_net),
         discounted_cf |-> discounted(year1_net, adj.wacc, 1)]

\* Lines 455-474; cumulative_cf is the running total before this year.
year1_record(adj, tab, adoption, cumulative_cf) ==
    LET year1_benefit == RMul(RMul(tab, Rat(45, 100)), adoption)
        year1_cost == RAdd(RAdd(RMul(adj.initial_investment, Rat(50, 100)),
                                RMul(adj.change_management_cost, Rat(50, 100))),
                           adj.integration_cost)
        year1_maintenance == RMul(adj.annual_maintenance, Rat(5, 10))
        year1_net == RSub(RSub(year1_benefit, year1_cost), year1_maintenance)
    IN  [year |-> 1,
         phase |-> "Limited Production",
         adoption_rate |-> RMul(Rat(45, 100), adoption),
         investment |-> year1_cost,
         maintenance |-> year1_maintenance,
         benefits |-> year1_benefit,
         net_cf |-> year1_net,
         cumulative_cf |-> RAdd(cumulative_cf, year1_net),
         discounted_cf |-> discounted(year1_net, adj.wacc, 1)]

\* Mutant of year2_record: the benefit is discounted, not the net cash flow.
year2_record_discounts_benefit(adj, tab, adoption, cumulative_cf) ==
    LET year2_benefit == RMul(RMul(tab, Rat(80, 100)), adoption)
        year2_cost == RMul(adj.initial_investment, Rat(20, 100))
        year2_maintenance == adj.annual_maintenance
        year2_net == RSub(RSub(year2_benefit, year2_cost), year2_maintenance)
    IN  [year |-> 2,
         phase |-> "Full Production",
         adoption_rate |-> RMul(Rat(80, 100), adoption),
         investment |-> year2_cost,
         maintenance |-> year2_maintenance,
         benefits |-> year2_benefit,
         net_cf |-> year2_net,
         cumulative_cf |-> RAdd(cumulative_cf, year2_net),
         discounted_cf |-> discounted(year2_benefit, adj.wacc, 2)]

\* Lines 476-493.
year2_record(adj, tab, adoption, cumulative_cf) ==
    LET year2_benefit == RMul(RMul(tab, Rat(80, 100)), adoption)
        year2_cost == RMul(adj.initial_investment, Rat(20, 100))
        year2_maintenance == adj.annual_maintenance
        year2_net == RSub(RSub(year2_benefit, year2_cost), year2_maintenance)
    IN  [year |-> 2,
         phase |-> "Full Production",
         adoption_rate |-> RMul(Rat(80, 100), adoption),
         investment |-> year2_cost,
         maintenance |-> year2_maintenance,
         benefits |-> year2_benefit,
         net_cf |-> year2_net,
         cumulative_cf |-> RAdd(cumulative_cf, year2_net),
         discounted_cf |-> discounted(year2_net, adj.wacc, 2)]

\* The body of the loop of lines 496-513 for one year.
steady_state_record(adj, tab, adoption, cumulative_cf, year) ==
    LET growth_factor == RPow(Rat(103, 100), year - 2)
        year_benefit == RMul(RMul(tab, adoption), growth_factor)
        year_maintenance ==
            RMul(adj.annual_maintenance, RPow(Rat(102, 100), year - 2))
        year_net == RSub(year_benefit, year_maintenance)
    IN  [year |-> year,
         phase |-> "Steady State",
         adoption_rate |-> adoption,
         investment |-> Zero,
         maintenance |-> year_maintenance,
         benefits |-> year_benefit,
         net_cf |-> year_net,
         cumulative_cf |-> RAdd(cumulative_cf, year_net),
         discounted_cf |-> discounted(year_net, adj.wacc, year)]

\* Mutant of steady_state_loop: range(3, time_horizon), one year short.
RECURSIVE steady_state_loop_short(_, _, _, _, _)
steady_state_loop_short(years, adj, tab, adoption, year) ==
    IF year >= adj.time_horizon THEN years
    ELSE steady_state_loop_short(
             Append(years,
                    steady_state_record(adj, tab, adoption,
                                        years[Len(years)].cumulative_cf, year)),
             adj, tab, adoption, year + 1)

\* for year in range(3, time_horizon + 1): years.append(...)
RECURSIVE steady_state_loop(_, _, _, _, _)
steady_state_loop(years, adj, tab, adoption, year) ==
    IF year >= adj.time_horizon + 1 THEN years
    ELSE steady_state_loop(
             Append(years,
                    steady_state_record(adj, tab, adoption,
                                        years[Len(years)].cumulative_cf, year)),
             adj, tab, adoption, year + 1)

\* Mutant of build_years: the year-2 record is appended twice.
build_years_repeats_year2(adj, tab, adoption) ==
    LET y0 == year0_record(adj, tab, adoption)
        y1 == year1_record(adj, tab, adoption, y0.cumulative_cf)
        y2 == year2_record(adj, tab, adoption, y1.cumulative_cf)
    IN  steady_state_loop(<<y0, y1, y2, y2>>, adj, tab, adoption, 3)

\* Lines 433-513: the list years.
build_years(adj, tab, adoption) ==
    LET y0 == year0_record(adj, tab, adoption)
        y1 == year1_record(adj, tab, adoption, y0.cumulative_cf)
        y2 == year2_record(adj, tab, adoption, y1.cumulative_cf)
    IN  steady_state_loop(<<y0, y1, y2>>, adj, tab, adoption, 3)

\* df[col].sum()
RECURSIVE column_sum(_, _, _)
column_sum(years, col, n) ==
    IF n = 0 THEN Zero ELSE RAdd(column_sum(years, col, n - 1), years[n][col])

\* Mutant of payback_period: interpolates from idx instead of idx - 1.
RECURSIVE payback_period_from_idx(_, _)
payback_period_from_idx(years, idx) ==
    IF idx >= Len(years) THEN None
    ELSE IF RPos(years[idx + 1].cumulative_cf)
         THEN IF idx = 0 THEN Zero
              ELSE LET prev_cf == years[idx].cumulative_cf
                       curr_cf == years[idx + 1].cumulative_cf
                       year_fraction ==
                           IF RSub(curr_cf, prev_cf) # Zero
                           THEN RDiv(RAbs(prev_cf), RSub(curr_cf, prev_cf))
                           ELSE Zero
                   IN  RAdd(Num(idx), year_fraction)
         ELSE payback_period_from_idx(years, idx + 1)

\* Mutant of payback_period: no break, every later row with a positive
\* cumulative_cf overwrites the payback.
RECURSIVE payback_period_no_break(_, _)
payback_period_no_break(years, idx) ==
    IF idx >= Len(years) THEN None
    ELSE IF payback_period_no_break(years, idx + 1) # None
         THEN payback_period_no_break(years, idx + 1)
         ELSE IF RPos(years[idx + 1].cumulative_cf)
              THEN IF idx = 0 THEN Zero
                   ELSE LET prev_cf == years[idx].cumulative_cf
                            curr_cf == years[idx + 1].cumulative_cf
                            year_fraction ==
                                IF RSub(curr_cf, prev_cf) # Zero
                                THEN RDiv(RAbs(prev_cf), RSub(curr_cf, prev_cf))
                                ELSE Zero
                        IN  RAdd(Num(idx - 1), year_fraction)
              ELSE None

\* Lines 523-534; idx is the 0-based DataFrame index, row idx is years[idx + 1].
RECURSIVE payback_period(_, _)
payback_period(years, idx) ==
    IF idx >= Len(years) THEN None
    ELSE IF RPos(years[idx + 1].cumulative_cf)
         THEN IF idx = 0 THEN Zero
              ELSE LET prev_cf == years[idx].cumulative_cf
                       curr_cf == years[idx + 1].cumulative_cf
                       year_fraction ==
                           IF RSub(curr_cf, prev_cf) # Zero
                           THEN RDiv(RAbs(prev_cf), RSub(curr_cf, prev_cf))
                           ELSE Zero
                   IN  RAdd(Num(idx - 1), year_fraction)
         ELSE payback_period(years, idx + 1)

\* Mutant of return_on_investment: a fraction instead of a percentage.
return_on_investment_fraction(total_benefits, total_investment) ==
    IF RPos(total_investment)
    THEN RDiv(RSub(total_benefits, total_investment), total_investment)
    ELSE Zero

\* Line 521.
return_on_investment(total_benefits, total_investment) ==
    IF RPos(total_investment)
    THEN RMul(RDiv(RSub(total_benefits, total_investment), total_investment), Num(100))
    ELSE Zero

\* Mutant of cycle_time_raises: every non-positive cycle time is rejected.
cycle_time_raises_nonpositive(current_cycle_time) == ~RPos(current_cycle_time)

\* Line 284 divides by current_cycle_time: ZeroDivisionError when it is 0.
cycle_time_raises(current_cycle_time) == current_cycle_time = Zero

\* Mutant of cost_per_order_raises: the division by 0 goes unnoticed.
cost_per_order_raises_never(current_cost) == FALSE

\* Line 310 divides by current_cost: ZeroDivisionError when it is 0.
cost_per_order_raises(current_cost) == current_cost = Zero

\* (1 + wacc) ** year is 0 for wacc = -1 and year >= 1: line 473 then raises.
discounting_raises(wacc) == RAdd(One, wacc) = Zero

\* Mutant of inputs_after_call: the targets adjusted in place.
inputs_after_call_in_place(inp, scenario_type) ==
    adjusted_inputs(inp, scenario_multipliers[scenario_type].performance)

\* The caller's FinancialInputs after calculate_scenario(inputs, scenario_type):
\* adj_inputs is a new object (line 342) and no field of inputs is assigned.
inputs_after_call(inp, scenario_type) == inp

\* An exception leaving calculate_scenario: no dict is returned.  computed lists
\* the benefit calculators that had returned before it was raised.
Raised(error, at, computed) ==
    [status |-> "raised", error |-> error, at |-> at, computed |-> computed]

\* Lines 515-554: the DataFrame's sums, ROI, payback and the returned dict.
scenario_result(scenario_type, adoption, perf, annual_revenue, wc_benefit, error_benefit, leakage_benefit, labor_benefit, cycle_benefit, cost_benefit, tab, df) ==
    LET npv == column_sum(df, "discounted_cf", Len(df))
        total_investment == RAdd(column_sum(df, "investment", Len(df)),
                                 column_sum(df, "maintenance", Len(df)))
        total_benefits == column_sum(df, "benefits", Len(df))
    IN  [status |-> "returned",
         scenario_type |-> scenario_type,
         adoption_rate |-> adoption,
         performance_multiplier |-> perf,
         annual_revenue |-> annual_revenue,
         working_capital |-> wc_benefit,
         error_reduction |-> error_benefit,
         revenue_leakage |-> leakage_benefit,
         labor_automation |-> labor_benefit,
         cycle_time |-> cycle_benefit,
         cost_reduction |-> cost_benefit,
         total_annual_benefit |-> tab,
         cash_flow_df |-> df,
         npv |-> npv,
         roi |-> return_on_investment(total_benefits, total_investment),
         payback |-> payback_period(df, 0),
         total_investment |-> total_investment,
         total_benefits |-> total_benefits]

\* Lines 423-554, from the six benefit dicts on: the total, the year records,
\* the result.
scenario_cash_flows(scenario_type, adoption, perf, adj_inputs, annual_revenue, wc_benefit, error_benefit, leakage_benefit, labor_benefit, cycle_benefit, cost_benefit) ==
    IF discounting_raises(adj_inputs.wacc)
    THEN Raised("ZeroDivisionError", "year1",
                <<"working_capital", "error_reduction", "revenue_leakage",
                  "labor_automation", "cycle_time", "cost_reduction">>)
    ELSE scenario_result(
             scenario_type, adoption, perf, annual_revenue, wc_benefit,
             error_benefit, leakage_benefit, labor_benefit, cycle_benefit,
             cost_benefit,
             total_annual_benefit(adoption, wc_benefit, error_benefit,
                                  leakage_benefit, labor_benefit, cycle_benefit,
                                  cost_benefit),
             build_years(adj_inputs,
                         total_annual_benefit(adoption, wc_benefit, error_benefit,
                                              leakage_benefit, labor_benefit,
                                              cycle_benefit, cost_benefit),
                         adoption))

\* Lines 377-554, from adj_inputs on: the six benefit calculators in the order
\* of the code, then the cash flows.
scenario_benefits(scenario_type, adoption, perf, adj_inputs) ==
    LET annual_revenue == calculate_annual_revenue(adj_inputs.annual_order_volume,
                                                   adj_inputs.average_order_value)
    IN
    IF cycle_time_raises(adj_inputs.current_cycle_time)
    THEN Raised("ZeroDivisionError", "calculate_cycle_time_benefit",
                <<"working_capital", "error_reduction", "revenue_leakage",
                  "labor_automation">>)
    ELSE IF cost_per_order_raises(adj_inputs.current_cost_per_order)
    THEN Raised("ZeroDivisionError", "calculate_cost_per_order_benefit",
                <<"working_capital", "error_reduction", "revenue_leakage",
                  "labor_automation", "cycle_time">>)
    ELSE scenario_cash_flows(
             scenario_type, adoption, perf, adj_inputs, annual_revenue,
             calculate_working_capital_benefit(
                 adj_inputs.current_dso, adj_inputs.target_dso, annual_revenue,
                 adj_inputs.wacc),
             calculate_error_reduction_benefit(
                 adj_inputs.current_perfect_order_rate,
                 adj_inputs.target_perfect_order_rate,
                 adj_inputs.annual_order_volume, adj_inputs.avg_rework_cost),
             calculate_revenue_leakage_benefit(
                 adj_inputs.current_revenue_leakage,
                 adj_inputs.target_revenue_leakage,
                 annual_revenue, adj_inputs.profit_margin),
             calculate_labor_automation_benefit(
                 adj_inputs.current_stp_rate, adj_inputs.target_stp_rate,
                 adj_inputs.annual_order_volume,
                 adj_inputs.avg_manual_processing_time,
                 adj_inputs.fully_loaded_hourly_rate),
             calculate_cycle_time_benefit(
                 adj_inputs.current_cycle_time, adj_inputs.target_cycle_time,
                 adj_inputs.annual_order_volume, adj_inputs.average_order_value,
                 adj_inputs.profit_margin, Rat(30, 100)),
             calculate_cost_per_order_benefit(
                 adj_inputs.current_cost_per_order,
                 adj_inputs.target_cost_per_order,
                 adj_inputs.annual_order_volume))

\* Lines 337-384 on their own: the multipliers, adj_inputs, annual_revenue and
\* wc_benefit of a scenario.
working_capital_of_scenario(inp, scenario_type) ==
    LET adj_inputs == adjusted_inputs(inp, scenario_multipliers[scenario_type].performance)
        annual_revenue == calculate_annual_revenue(adj_inputs.annual_order_volume,
                                                   adj_inputs.average_order_value)
    IN  [status |-> "returned",
         annual_revenue |-> annual_revenue,
         working_capital |->
             calculate_working_capital_benefit(adj_inputs.current_dso,
                                               adj_inputs.target_dso,
                                               annual_revenue, adj_inputs.wacc)]

\* Mutant of calculate_scenario: scenario_multipliers.get(scenario_type, base),
\* an unknown tag runs as the base case.
calculate_scenario_default_base(inp, scenario_type) ==
    IF scenario_type \notin DOMAIN scenario_multipliers
    THEN scenario_benefits(
             scenario_type,
             scenario_multipliers["base"].adoption,
             scenario_multipliers["base"].performance,
             adjusted_inputs(inp, scenario_multipliers["base"].performance))
    ELSE scenario_benefits(
             scenario_type,
             scenario_multipliers[scenario_type].adoption,
             scenario_multipliers[scenario_type].performance,
             adjusted_inputs(inp, scenario_multipliers[scenario_type].performance))

\* Lines 318-554.  An unknown tag raises KeyError at line 337; otherwise the
\* multipliers are looked up, adj_inputs is built and the rest runs on it.
calculate_scenario(inp, scenario_type) ==
    IF scenario_type \notin DOMAIN scenario_multipliers
    THEN Raised("KeyError", "scenario_multipliers", <<>>)
    ELSE scenario_benefits(
             scenario_type,
             scenario_multipliers[scenario_type].adoption,
             scenario_multipliers[scenario_type].performance,
             adjusted_inputs(inp, scenario_multipliers[scenario_type].performance))

(***************************************************************************)
(* get_benchmark_position.                                                 *)
(***************************************************************************)
\* Lines 81-112.
INDUSTRY_BENCHMARKS ==
    [dso |-> [bottom_quartile |-> Num(52), average |-> Num(38),
              top_quartile |-> Num(31), best_in_class |-> Num(24)],
     perfect_order_rate |-> [bottom_quartile |-> Rat(68, 100), average |-> Rat(85, 100),
                             top_quartile |-> Rat(93, 100), best_in_class |-> Rat(97, 100)],
     stp_rate |-> [bottom_quartile |-> Rat(58, 100), average |-> Rat(78, 100),
                   top_quartile |-> Rat(89, 100), best_in_class |-> Rat(95, 100)],
     cost_per_order |-> [bottom_quartile |-> Num(105), average |-> Num(62),
                         top_quartile |-> Num(42), best_in_class |-> Num(28)],
     revenue_leakage |-> [bottom_quartile |-> Rat(12, 100), average |-> Rat(6, 100),
                          top_quartile |-> Rat(3, 100), best_in_class |-> Rat(1, 100)]]

\* Mutant of categorize: strict comparisons.
categorize_strict(metric_name, benchmarks, value) ==
    IF metric_name \in {"dso", "cost_per_order", "revenue_leakage"}
    THEN IF RLt(value, benchmarks.best_in_class) THEN <<"Best-in-Class", "#28a745">>
         ELSE IF RLt(value, benchmarks.top_quartile) THEN <<"Top Quartile", "#20c997">>
         ELSE IF RLt(value, benchmarks.average) THEN <<"Average", "#ffc107">>
         ELSE <<"Bottom Quartile", "#dc3545">>
    ELSE IF RLt(benchmarks.best_in_class, value) THEN <<"Best-in-Class", "#28a745">>
         ELSE IF RLt(benchmarks.top_quartile, value) THEN <<"Top Quartile", "#20c997">>
         ELSE IF RLt(benchmarks.average, value) THEN <<"Average", "#ffc107">>
         ELSE <<"Bottom Quartile", "#dc3545">>

\* The nested function categorize (lines 560-579); metric_name and benchmarks are
\* the variables of get_benchmark_position it closes over.
categorize(metric_name, benchmarks, value) ==
    IF metric_name \in {"dso", "cost_per_order", "revenue_leakage"}
    THEN IF RLe(value, benchmarks.best_in_class) THEN <<"Best-in-Class", "#28a745">>
         ELSE IF RLe(value, benchmarks.top_quartile) THEN <<"Top Quartile", "#20c997">>
         ELSE IF RLe(value, benchmarks.average) THEN <<"Average", "#ffc107">>
         ELSE <<"Bottom Quartile", "#dc3545">>
    ELSE IF RLe(benchmarks.best_in_class, value) THEN <<"Best-in-Class", "#28a745">>
         ELSE IF RLe(benchmarks.top_quartile, value) THEN <<"Top Quartile", "#20c997">>
         ELSE IF RLe(benchmarks.average, value) THEN <<"Average", "#ffc107">>
         ELSE <<"Bottom Quartile", "#dc3545">>

\* Lines 556-591.  An unknown metric_name raises KeyError at line 558.
get_benchmark_position(metric_name, current_value, target_value) ==
    IF metric_name \notin DOMAIN INDUSTRY_BENCHMARKS
    THEN Raised("KeyError", "INDUSTRY_BENCHMARKS", <<>>)
    ELSE [status |-> "returned",
          current_category |->
              categorize(metric_name, INDUSTRY_BENCHMARKS[metric_name], current_value)[1],
          current_color |->
              categorize(metric_name, INDUSTRY_BENCHMARKS[metric_name], current_value)[2],
          target_category |->
              categorize(metric_name, INDUSTRY_BENCHMARKS[metric_name], target_value)[1],
          target_color |->
              categorize(metric_name, INDUSTRY_BENCHMARKS[metric_name], target_value)[2],
          benchmarks |-> INDUSTRY_BENCHMARKS[metric_name]]

(***************************************************************************)
(* The consumers of the three results in main.                             *)
(***************************************************************************)
\* Python truth value of a payback: None, 0 and 0.0 are false.
Truthy(x) == x # None /\ x # Zero

\* result['payback'] if result['payback'] else 99  (lines 651-653, 1177, 1276,
\* 1294, 1312)
payback_or_99(result) == IF Truthy(result.payback) THEN result.payback ELSE Num(99)

\* format(x, '.1f') raises TypeError for None.
Formattable(x) == x # None

\* (base['total_investment'] / base['total_annual_benefit']) * 100, line 812.
\* total_investment is the sum of DataFrame columns, a numpy.float64, whose
\* division by 0.0 gives inf (nan for 0 / 0) with a warning, not an exception.
break_even_pct(base) ==
    IF base.total_annual_benefit # Zero
    THEN [kind |-> "finite",
          value |-> RMul(RDiv(base.total_investment, base.total_annual_benefit),
                         Num(100))]
    ELSE IF base.total_investment = Zero THEN [kind |-> "nan"] ELSE [kind |-> "inf"]

\* generate_executive_summary (lines 718-865): the f-string is evaluated top to
\* bottom; the fields read from the results are the ones kept here.
generate_executive_summary(inp, best, base, worst) ==
    IF ~Formattable(base.payback)
    THEN [status |-> "raised", error |-> "TypeError", at |-> 774]
    ELSE IF ~Formattable(worst.payback)
    THEN [status |-> "raised", error |-> "TypeError", at |-> 809]
    ELSE [status |-> "rendered",
          base_payback |-> base.payback,
          worst_payback |-> worst.payback,
          break_even |-> break_even_pct(base)]

(***************************************************************************)
(* Inputs.  Spec draws them from the ranges main's widgets accept (lines   *)
(* 877-1107); SpecDirect adds records the widgets would refuse, handed to  *)
(* calculate_scenario directly.                                            *)
(***************************************************************************)
MaxVolume == 1
\* <<wacc, time_horizon>>.  main's selectbox offers the horizons 3, 5, 7 and 10
\* (line 1102); calculate_scenario takes any horizon and runs its steady-state
\* loop for the years 3..time_horizon.  TLC's integers have 32 bits: the
\* lowest-terms cash flows of year 5 (growth 1.03^3) do not fit, nor does the sum
\* of five discounted cash flows at a WACC of 1/4, so the horizons explored are
\* 3 (one pass of the loop) and, undiscounted, 4 (two passes).
Discounting == {<<Zero, 3>>, <<Zero, 4>>, <<Rat(1, 4), 3>>}

\* <<initial_investment, annual_maintenance, change_management_cost,
\*   integration_cost>>: nothing to pay, an outlay in year 1 only, upkeep only,
\* and all four.
Investments ==
    {<<Zero, Zero, Zero, Zero>>,
     <<Zero, Zero, Zero, Num(2)>>,
     <<Zero, Num(1), Zero, Zero>>,
     <<Num(4), Num(1), Num(2), Num(2)>>}

BaseInputs ==
    [annual_order_volume |-> Num(1),
     average_order_value |-> Num(20),
     profit_margin |-> Rat(1, 2),
     current_dso |-> Num(146),
     current_perfect_order_rate |-> Rat(1, 2),
     current_cycle_time |-> Num(3),
     current_revenue_leakage |-> Rat(1, 5),
     current_cost_per_order |-> Num(8),
     current_stp_rate |-> Rat(1, 2),
     target_dso |-> Num(146),
     target_perfect_order_rate |-> Rat(1, 2),
     target_cycle_time |-> Num(3),
     target_revenue_leakage |-> Rat(1, 5),
     target_cost_per_order |-> Num(8),
     target_stp_rate |-> Rat(1, 2),
     avg_rework_cost |-> Num(4),
     fully_loaded_hourly_rate |-> Num(8),
     avg_manual_processing_time |-> Num(15),
     initial_investment |-> Zero,
     annual_maintenance |-> Zero,
     change_management_cost |-> Zero,
     integration_cost |-> Zero,
     wacc |-> Zero,
     tax_rate |-> Rat(1, 4),
     time_horizon |-> 3,
     pilot_duration_months |-> 3,
     limited_production_months |-> 6,
     full_production_month |-> 10]

WidgetInputs ==
    { [BaseInputs EXCEPT
          !.annual_order_volume = Num(v),
          !.target_dso = td,
          !.target_perfect_order_rate = tp,
          !.target_cycle_time = tc,
          !.target_revenue_leakage = tl,
          !.target_cost_per_order = tk,
          !.target_stp_rate = ts,
          !.initial_investment = iv[1],
          !.annual_maintenance = iv[2],
          !.change_management_cost = iv[3],
          !.integration_cost = iv[4],
          !.wacc = wt[1],
          !.time_horizon = wt[2]] :
        v \in 1..MaxVolume,
        td \in {Num(73), Num(146), Num(219)},
        tp \in {Rat(1, 2), Rat(3, 4)},
        tc \in {Num(3), Num(1)},
        tl \in {Rat(1, 5), Rat(1, 10)},
        tk \in {Num(8), Num(5)},
        ts \in {Rat(1, 2), Num(1)},
        iv \in Investments,
        wt \in Discounting }

\* What a record handed to calculate_scenario directly can break: a negative
\* order volume, a rate above 1, a rate below 0, a WACC of -100%, a cycle time of
\* 0, a negative cycle time, a cost per order of 0.
Violations ==
    {"negative_volume", "rate_above_one", "rate_below_zero", "wacc_minus_one",
     "zero_cycle_time", "negative_cycle_time", "zero_cost_per_order"}

Violate(inp, how) ==
    CASE how = "negative_volume" -> [inp EXCEPT !.annual_order_volume = Num(-1)]
      [] how = "rate_above_one" ->
             [inp EXCEPT !.current_perfect_order_rate = Rat(3, 2)]
      [] how = "rate_below_zero" -> [inp EXCEPT !.profit_margin = Rat(-1, 2)]
      [] how = "wacc_minus_one" -> [inp EXCEPT !.wacc = Num(-1)]
      [] how = "zero_cycle_time" -> [inp EXCEPT !.current_cycle_time = Zero]
      [] how = "negative_cycle_time" -> [inp EXCEPT !.current_cycle_time = Num(-3)]
      [] how = "zero_cost_per_order" -> [inp EXCEPT !.current_cost_per_order = Zero]

DirectInputs ==
    { Violate(inp, how) :
        inp \in { w \in WidgetInputs :
                     /\ w.target_perfect_order_rate = Rat(3, 4)
                     /\ w.target_revenue_leakage = Rat(1, 10)
                     /\ w.target_cost_per_order = Num(5)
                     /\ w.target_stp_rate = Num(1) },
        how \in Violations }

NoResult == [status |-> "none"]

\* No function is being called on its own: main is running.
NoCall == [status |-> "none"]

Start(inp) ==
    /\ inputs = inp
    /\ results = [s \in Scenarios |-> NoResult]
    /\ pc = "calc"
    /\ shown = [metric |-> <<>>, cards |-> <<>>, chart |-> <<>>]
    /\ summary = [status |-> "none"]
    /\ call = NoCall

\* A function called on its own, outside main: the call is pending with its
\* arguments until the function has returned or raised.
StartCall(inp, fn, args) ==
    /\ inputs = inp
    /\ results = [s \in Scenarios |-> NoResult]
    /\ pc = "call"
    /\ shown = [metric |-> <<>>, cards |-> <<>>, chart |-> <<>>]
    /\ summary = [status |-> "none"]
    /\ call = [status |-> "pending", fn |-> fn, args |-> args, value |-> NoResult]

\* The values get_benchmark_position is called with: each threshold of the
\* metric, and one step (1 day, 1 dollar, 1 percentage point) to either side.
BenchmarkValues(metric_name) ==
    LET step == IF metric_name \in {"dso", "cost_per_order"} THEN One ELSE Rat(1, 100)
        b == INDUSTRY_BENCHMARKS[metric_name]
    IN  UNION { {RSub(t, step), t, RAdd(t, step)} :
                  t \in {b.bottom_quartile, b.average, b.top_quartile, b.best_in_class} }

InitBenchmark ==
    \E metric_name \in DOMAIN INDUSTRY_BENCHMARKS :
        \E current_value \in BenchmarkValues(metric_name),
           target_value \in BenchmarkValues(metric_name) :
            StartCall(BaseInputs, "get_benchmark_position",
                      <<metric_name, current_value, target_value>>)

\* The tags calculate_scenario is called with on its own: the three of the table
\* and three that are not keys of it.
Tags == Scenarios \cup {"Base", "expected", ""}

TagInputs ==
    { w \in WidgetInputs :
        /\ w.target_perfect_order_rate = Rat(3, 4)
        /\ w.target_cycle_time = Num(1)
        /\ w.target_revenue_leakage = Rat(1, 10)
        /\ w.target_cost_per_order = Num(5)
        /\ w.target_stp_rate = Num(1) }

InitTags ==
    \E inp \in TagInputs, scenario_type \in Tags :
        StartCall(inp, "calculate_scenario", <<scenario_type>>)

\* The values main's widgets start with (value=..., lines 877-1107), in dollars,
\* orders and days.
DefaultInputs ==
    [annual_order_volume |-> Num(50000),
     average_order_value |-> Num(2500),
     profit_margin |-> Rat(15, 100),
     current_dso |-> Num(45),
     current_perfect_order_rate |-> Rat(75, 100),
     current_cycle_time |-> Rat(52, 10),
     current_revenue_leakage |-> Rat(8, 100),
     current_cost_per_order |-> Num(85),
     current_stp_rate |-> Rat(65, 100),
     target_dso |-> Num(35),
     target_perfect_order_rate |-> Rat(92, 100),
     target_cycle_time |-> Num(3),
     target_revenue_leakage |-> Rat(3, 100),
     target_cost_per_order |-> Num(52),
     target_stp_rate |-> Rat(88, 100),
     avg_rework_cost |-> Num(85),
     fully_loaded_hourly_rate |-> Num(75),
     avg_manual_processing_time |-> Num(28),
     initial_investment |-> Num(500000),
     annual_maintenance |-> Num(100000),
     change_management_cost |-> Num(100000),
     integration_cost |-> Num(75000),
     wacc |-> Rat(8, 100),
     tax_rate |-> Rat(25, 100),
     time_horizon |-> 5,
     pilot_duration_months |-> 3,
     limited_production_months |-> 6,
     full_production_month |-> 10]

\* The defaults and their neighbours in the fields the working-capital benefit
\* reads.
WorkingCapitalInputs ==
    { [DefaultInputs EXCEPT
          !.annual_order_volume = Num(v),
          !.average_order_value = Num(a),
          !.current_dso = Num(cd),
          !.target_dso = Num(td),
          !.wacc = w] :
        v \in {50000, 20000}, a \in {2500, 1000}, cd \in {45, 60, 35},
        td \in {35, 30, 45}, w \in {Rat(8, 100), Zero, Rat(10, 100)} }

InitWorkingCapital ==
    \E inp \in WorkingCapitalInputs, scenario_type \in Scenarios :
        StartCall(inp, "working_capital_of_scenario", <<scenario_type>>)

\* main, after the widgets are read (line 1110).
Init == \E inp \in WidgetInputs : Start(inp)

\* A caller other than main, handing calculate_scenario a record of its own.
InitDirect == \E inp \in DirectInputs : Start(inp)

\* Mutant of Calculate: the call wrapped in try/except, the exception swallowed
\* and main carrying on.
Calculate_swallows(s) ==
    /\ pc = "calc"
    /\ results[s].status = "none"
    /\ results' = [results EXCEPT ![s] = calculate_scenario(inputs, s)]
    /\ pc' = IF \A t \in Scenarios \ {s} : results[t].status # "none"
             THEN "metrics" ELSE "calc"
    /\ inputs' = inputs_after_call(inputs, s)
    /\ UNCHANGED <<shown, summary, call>>

\* best_result = calculate_scenario(inputs, 'best') and its two siblings (lines
\* 1142-1144).  main makes the calls in the order best, base, worst; the model
\* lets the caller make them in any order.  An exception ends main.
Calculate(s) ==
    /\ pc = "calc"
    /\ results[s].status = "none"
    /\ results' = [results EXCEPT ![s] = calculate_scenario(inputs, s)]
    /\ pc' = IF results'[s].status = "raised" THEN "failed"
                    ELSE IF \A t \in Scenarios \ {s} : results[t].status = "returned"
                         THEN "metrics" ELSE "calc"
    /\ inputs' = inputs_after_call(inputs, s)
    /\ UNCHANGED <<shown, summary, call>>

\* The "Base Case Payback" metric card (lines 1176-1184).
KeyMetrics ==
    /\ pc = "metrics"
    /\ shown' = [shown EXCEPT !.metric = <<payback_or_99(results["base"])>>]
    /\ pc' = "cards"
    /\ UNCHANGED <<inputs, results, summary, call>>

\* The three scenario cards (lines 1261-1313).
ScenarioCards ==
    /\ pc = "cards"
    /\ shown' = [shown EXCEPT !.cards = <<payback_or_99(results["best"]),
                                           payback_or_99(results["base"]),
                                           payback_or_99(results["worst"])>>]
    /\ pc' = "charts"
    /\ UNCHANGED <<inputs, results, summary, call>>

\* create_scenario_comparison_chart (lines 644-677, called at line 1326).
ScenarioComparisonChart ==
    /\ pc = "charts"
    /\ shown' = [shown EXCEPT !.chart = <<payback_or_99(results["best"]),
                                           payback_or_99(results["base"]),
                                           payback_or_99(results["worst"])>>]
    /\ pc' = "summary"
    /\ UNCHANGED <<inputs, results, summary, call>>

\* exec_summary = generate_executive_summary(...) (line 1399).
ExecutiveSummary ==
    /\ pc = "summary"
    /\ summary' = generate_executive_summary(inputs, results["best"],
                                             results["base"], results["worst"])
    /\ pc' = IF summary'.status = "raised" THEN "failed" ELSE "done"
    /\ UNCHANGED <<inputs, results, shown, call>>

\* benchmark_info = get_benchmark_position(key, curr_val, targ_val), line 1221.
GetBenchmarkPosition ==
    /\ pc = "call"
    /\ call.status = "pending"
    /\ call.fn = "get_benchmark_position"
    /\ call' = [call EXCEPT
                   !.value = get_benchmark_position(call.args[1], call.args[2],
                                                    call.args[3]),
                   !.status = "done"]
    /\ UNCHANGED <<inputs, results, pc, shown, summary>>

\* calculate_scenario(inputs, scenario_type) with a tag of the caller's choosing.
CallScenario ==
    /\ pc = "call"
    /\ call.status = "pending"
    /\ call.fn = "calculate_scenario"
    /\ call' = [call EXCEPT !.value = calculate_scenario(inputs, call.args[1]),
                            !.status = "done"]
    /\ UNCHANGED <<inputs, results, pc, shown, summary>>

\* calculate_scenario as far as wc_benefit (line 384).
CallWorkingCapital ==
    /\ pc = "call"
    /\ call.status = "pending"
    /\ call.fn = "working_capital_of_scenario"
    /\ call' = [call EXCEPT !.value = working_capital_of_scenario(inputs, call.args[1]),
                            !.status = "done"]
    /\ UNCHANGED <<inputs, results, pc, shown, summary>>

Next ==
    \/ \E s \in Scenarios : Calculate(s)
    \/ KeyMetrics
    \/ ScenarioCards
    \/ ScenarioComparisonChart
    \/ ExecutiveSummary

Spec == Init /\ [][Next]_vars

SpecDirect == InitDirect /\ [][Next]_vars

SpecBenchmark == InitBenchmark /\ [][GetBenchmarkPosition]_vars

SpecTags == InitTags /\ [][CallScenario]_vars

SpecWorkingCapital == InitWorkingCapital /\ [][CallWorkingCapital]_vars

(***************************************************************************)
(* Properties.                                                             *)
(***************************************************************************)
Returned(s) == results[s].status = "returned"
AllReturned == \A s \in Scenarios : Returned(s)

\* The sum of column col over the first n year records.
RECURSIVE SumOver(_, _, _)
SumOver(df, col, n) == IF n = 0 THEN Zero ELSE RAdd(SumOver(df, col, n - 1), df[n][col])

\* cumulative_cf of year y (year y is record y + 1).
CumAt(df, y) == df[y + 1].cumulative_cf

\* C1: every returned result holds time_horizon + 1 year records, numbered
\* 0, 1, ..., time_horizon in that order, and the cumulative_cf of record n is
\* the sum of net_cf over records 0..n.
C1_YearSequence ==
    \A s \in Scenarios : Returned(s) =>
        LET df == results[s].cash_flow_df
        IN  /\ Len(df) = inputs.time_horizon + 1
            /\ \A n \in 1..Len(df) :
                   /\ df[n].year = n - 1
                   /\ df[n].cumulative_cf = SumOver(df, "net_cf", n)

C1_Witness ==
    \E s \in Scenarios :
        /\ Returned(s)
        /\ inputs.time_horizon = 4
        /\ Len(results[s].cash_flow_df) = 5
        /\ \A n \in 1..5 : results[s].cash_flow_df[n].net_cf # Zero

\* C2: in every returned result the gross benefit of year 0, 1, 2 is
\* total_annual_benefit times 0.15, 0.45, 0.80 and that of year y >= 3 is
\* total_annual_benefit times 1.03^(y-2), adoption entering only through
\* total_annual_benefit.
C2_BenefitIsRampOnly ==
    \A s \in Scenarios : Returned(s) =>
        LET df == results[s].cash_flow_df
            tab == results[s].total_annual_benefit
        IN  /\ df[1].benefits = RMul(tab, Rat(15, 100))
            /\ df[2].benefits = RMul(tab, Rat(45, 100))
            /\ df[3].benefits = RMul(tab, Rat(80, 100))
            /\ \A n \in 4..Len(df) :
                   df[n].benefits = RMul(tab, RPow(Rat(103, 100), n - 3))

\* Each of the five targets that enter total_annual_benefit is no worse than its
\* current value.
TargetsImprove(inp) ==
    /\ RLe(inp.target_dso, inp.current_dso)
    /\ RLe(inp.current_perfect_order_rate, inp.target_perfect_order_rate)
    /\ RLe(inp.target_cycle_time, inp.current_cycle_time)
    /\ RLe(inp.target_revenue_leakage, inp.current_revenue_leakage)
    /\ RLe(inp.current_stp_rate, inp.target_stp_rate)

\* The ranges main's widgets enforce on the fields the benefits multiply by.
NonNegativeFactors(inp) ==
    /\ RPos(inp.annual_order_volume) /\ RPos(inp.average_order_value)
    /\ RNonNeg(inp.profit_margin) /\ RNonNeg(inp.wacc)
    /\ RPos(inp.current_cycle_time)
    /\ RPos(inp.avg_rework_cost) /\ RPos(inp.fully_loaded_hourly_rate)
    /\ RPos(inp.avg_manual_processing_time)

TabOrdered ==
    /\ RLe(results["base"].total_annual_benefit, results["best"].total_annual_benefit)
    /\ RLe(results["worst"].total_annual_benefit, results["base"].total_annual_benefit)

\* C3 as claimed: for any inputs, total_annual_benefit is ordered
\* best >= base >= worst.
C3_MonotoneAnyInputs == AllReturned => TabOrdered

\* C3 as amended: when no target is worse than its current value (and volume,
\* prices, margin and WACC are not negative), total_annual_benefit is ordered
\* best >= base >= worst.
C3_MonotoneWhenImproving ==
    (AllReturned /\ TargetsImprove(inputs) /\ NonNegativeFactors(inputs)) => TabOrdered

C3_Witness ==
    /\ AllReturned /\ TargetsImprove(inputs) /\ NonNegativeFactors(inputs)
    /\ RLt(results["base"].total_annual_benefit, results["best"].total_annual_benefit)
    /\ RLt(results["worst"].total_annual_benefit, results["base"].total_annual_benefit)

InUnit(x) == RNonNeg(x) /\ RLe(x, One)

ViolatesDataModel(inp) ==
    \/ ~RPos(inp.annual_order_volume) \/ ~RPos(inp.average_order_value)
    \/ ~RPos(inp.current_dso) \/ ~RPos(inp.target_dso)
    \/ ~RPos(inp.current_cycle_time) \/ ~RPos(inp.target_cycle_time)
    \/ ~RPos(inp.current_cost_per_order) \/ ~RPos(inp.target_cost_per_order)
    \/ ~InUnit(inp.profit_margin) \/ ~InUnit(inp.wacc) \/ ~InUnit(inp.tax_rate)
    \/ ~InUnit(inp.current_perfect_order_rate)
    \/ ~InUnit(inp.target_perfect_order_rate)
    \/ ~InUnit(inp.current_revenue_leakage) \/ ~InUnit(inp.target_revenue_leakage)
    \/ ~InUnit(inp.current_stp_rate) \/ ~InUnit(inp.target_stp_rate)

\* The inputs for which one of the engine's divisions has a zero divisor.
ZeroDivisor(inp) ==
    \/ inp.current_cycle_time = Zero
    \/ inp.current_cost_per_order = Zero
    \/ inp.wacc = Num(-1)

\* C5 as claimed: on a record that breaks a data-model constraint
\* calculate_scenario raises before any benefit calculator has run.
C5_FailsFastAsClaimed ==
    \A s \in Scenarios :
        (ViolatesDataModel(inputs) /\ results[s].status # "none") =>
            /\ results[s].status = "raised"
            /\ results[s].computed = <<>>

\* C5 as amended: calculate_scenario validates nothing.  On a record that
\* breaks a data-model constraint it raises exactly when one of its divisions
\* has a zero divisor (current_cycle_time = 0, current_cost_per_order = 0,
\* wacc = -1), a ZeroDivisionError raised after at least four benefit
\* calculators have returned; on every other such record it returns a complete
\* result.
C5_NoValidation ==
    \A s \in Scenarios :
        (ViolatesDataModel(inputs) /\ results[s].status # "none") =>
            /\ results[s].status = "raised" <=> ZeroDivisor(inputs)
            /\ results[s].status = "raised" =>
                   /\ results[s].error = "ZeroDivisionError"
                   /\ Len(results[s].computed) >= 4
            /\ results[s].status = "returned" =>
                   /\ Len(results[s].cash_flow_df) = inputs.time_horizon + 1
                   /\ results[s].npv # None

C5_Witness ==
    \E s \in Scenarios :
        /\ ViolatesDataModel(inputs)
        /\ ~RPos(inputs.current_cycle_time)
        /\ Returned(s)
        /\ results[s].total_annual_benefit # Zero

\* C6: when a payback is absent, the metric card, the scenario cards, the
\* comparison chart and the executive summary all complete and render a payback.
C6_AbsentPaybackHandled ==
    (/\ pc \in {"done", "failed"}
     /\ AllReturned
     /\ \E s \in Scenarios : results[s].payback = None) =>
        /\ Len(shown.metric) = 1
        /\ Len(shown.cards) = 3
        /\ Len(shown.chart) = 3
        /\ summary.status = "rendered"

\* What a change of target_cost_per_order must leave alone.
CashFlowView(r) ==
    <<r.total_annual_benefit, r.cash_flow_df, r.npv, r.roi, r.payback>>

CostTargets == {Num(8), Num(5), Num(2)}

\* C7: total_annual_benefit is adoption times the sum of the five components
\* other than cost per order, and a run that differs only in
\* target_cost_per_order returns the same total_annual_benefit, year records,
\* NPV, ROI and payback.
C7_CostPerOrderExcluded ==
    pc = "metrics" =>
        \A s \in Scenarios :
            /\ results[s].total_annual_benefit =
                   RMul(results[s].adoption_rate,
                        RAdd(RAdd(RAdd(RAdd(results[s].working_capital.annual_benefit,
                                            results[s].error_reduction.annual_savings),
                                       results[s].revenue_leakage.profit_impact),
                                  results[s].labor_automation.annual_savings),
                             results[s].cycle_time.profit_impact))
            /\ \A tk \in CostTargets :
                   CashFlowView(calculate_scenario(
                       [inputs EXCEPT !.target_cost_per_order = tk], s))
                   = CashFlowView(results[s])

C7_Witness ==
    /\ pc = "metrics"
    /\ inputs.target_cost_per_order = Num(5)
    /\ results["base"].cost_reduction.annual_savings # Zero
    /\ results["base"].total_annual_benefit # Zero

\* C8: with WACC = 0 the NPV is the sum of net_cf over all year records, which
\* is the cumulative_cf of the last one.
C8_NpvUndiscounted ==
    \A s \in Scenarios : (Returned(s) /\ inputs.wacc = Zero) =>
        LET df == results[s].cash_flow_df
        IN  /\ results[s].npv = SumOver(df, "net_cf", Len(df))
            /\ results[s].npv = df[Len(df)].cumulative_cf

C8_Witness ==
    \E s \in Scenarios :
        /\ Returned(s)
        /\ inputs.wacc = Zero
        /\ inputs.time_horizon = 4
        /\ results[s].npv # Zero
        /\ results[s].total_annual_benefit # Zero

NoImprovement(inp) ==
    /\ inp.target_dso = inp.current_dso
    /\ inp.target_perfect_order_rate = inp.current_perfect_order_rate
    /\ inp.target_cycle_time = inp.current_cycle_time
    /\ inp.target_revenue_leakage = inp.current_revenue_leakage
    /\ inp.target_cost_per_order = inp.current_cost_per_order
    /\ inp.target_stp_rate = inp.current_stp_rate

\* The sum over the first n year records of (investment + maintenance) / (1 + wacc)^year.
RECURSIVE DiscountedOutlays(_, _, _)
DiscountedOutlays(df, wacc, n) ==
    IF n = 0 THEN Zero
    ELSE RAdd(DiscountedOutlays(df, wacc, n - 1),
              RDiv(RAdd(df[n].investment, df[n].maintenance),
                   RPow(RAdd(One, wacc), df[n].year)))

\* C9: when every target equals its current value, in each scenario all six
\* benefit components are 0, every year's gross benefit is 0, and the NPV is
\* minus the discounted sum of investment plus maintenance.
C9_NoImprovementNoBenefit ==
    \A s \in Scenarios : (Returned(s) /\ NoImprovement(inputs)) =>
        LET r == results[s]
            df == results[s].cash_flow_df
        IN  /\ r.working_capital.annual_benefit = Zero
            /\ r.error_reduction.annual_savings = Zero
            /\ r.revenue_leakage.profit_impact = Zero
            /\ r.labor_automation.annual_savings = Zero
            /\ r.cycle_time.profit_impact = Zero
            /\ r.cost_reduction.annual_savings = Zero
            /\ r.total_annual_benefit = Zero
            /\ \A n \in 1..Len(df) : df[n].benefits = Zero
            /\ r.npv = RNeg(DiscountedOutlays(df, inputs.wacc, Len(df)))

C9_Witness ==
    \E s \in Scenarios :
        /\ Returned(s)
        /\ NoImprovement(inputs)
        /\ inputs.wacc # Zero
        /\ results[s].npv # Zero

YearsOfPhase(df, phase) == {n \in 1..Len(df) : df[n].phase = phase}

\* C11: on inputs that satisfy the data model every call with a valid tag
\* returns a result and raises nothing, and the year records are built in at
\* most time_horizon + 1 steps: the three ramp years and one pass of the loop
\* for each year 3..time_horizon.
C11_TotalAndBounded ==
    \A s \in Scenarios :
        (~ViolatesDataModel(inputs) /\ results[s].status # "none") =>
            /\ Returned(s)
            /\ LET df == results[s].cash_flow_df
               IN  /\ Len(df) <= inputs.time_horizon + 1
                   /\ Cardinality(YearsOfPhase(df, "Pilot")) = 1
                   /\ Cardinality(YearsOfPhase(df, "Limited Production")) = 1
                   /\ Cardinality(YearsOfPhase(df, "Full Production")) = 1
                   /\ Cardinality(YearsOfPhase(df, "Steady State"))
                          = inputs.time_horizon - 2

C11_Witness ==
    /\ ~ViolatesDataModel(inputs)
    /\ AllReturned
    /\ inputs.time_horizon = 4
    /\ Cardinality(YearsOfPhase(results["worst"].cash_flow_df, "Steady State")) = 2

Called(fn) == call.status = "done" /\ call.fn = fn

\* The tier the claim gives a value: the thresholds best_in_class, top_quartile
\* and average are tried in that order, and they are ordered, so the first one
\* that matches is told by how many match.
LowerIsBetter == {"dso", "cost_per_order", "revenue_leakage"}

HigherIsBetter == {"perfect_order_rate", "stp_rate"}

ThresholdsMet(metric_name, value) ==
    LET b == INDUSTRY_BENCHMARKS[metric_name]
    IN  Cardinality({t \in {b.best_in_class, b.top_quartile, b.average} :
                        IF metric_name \in LowerIsBetter THEN RLe(value, t)
                        ELSE RLe(t, value)})

Tier(metric_name, value) ==
    CASE ThresholdsMet(metric_name, value) = 3 -> "Best-in-Class"
      [] ThresholdsMet(metric_name, value) = 2 -> "Top Quartile"
      [] ThresholdsMet(metric_name, value) = 1 -> "Average"
      [] OTHER -> "Bottom Quartile"

\* C12: get_benchmark_position gives the current and the target value the first
\* tier whose threshold it meets, with <= for dso, cost_per_order and
\* revenue_leakage and >= for perfect_order_rate and stp_rate, and 'Bottom
\* Quartile' when it meets none; DSO 24 is Best-in-Class, DSO 53 is Bottom
\* Quartile and a perfect-order rate of 0.93 is Top Quartile.
C12_BenchmarkTiers ==
    Called("get_benchmark_position") =>
        LET metric_name == call.args[1]
            current_value == call.args[2]
            target_value == call.args[3]
        IN  /\ metric_name \in LowerIsBetter \cup HigherIsBetter
            /\ call.value.status = "returned"
            /\ call.value.current_category = Tier(metric_name, current_value)
            /\ call.value.target_category = Tier(metric_name, target_value)
            /\ (metric_name = "dso" /\ current_value = Num(24)) =>
                   call.value.current_category = "Best-in-Class"
            /\ (metric_name = "dso" /\ current_value = Num(53)) =>
                   call.value.current_category = "Bottom Quartile"
            /\ (metric_name = "perfect_order_rate" /\ current_value = Rat(93, 100)) =>
                   call.value.current_category = "Top Quartile"

C12_Witness ==
    /\ Called("get_benchmark_position")
    /\ call.args = <<"perfect_order_rate", Rat(93, 100), Rat(97, 100)>>
    /\ call.value.current_category = "Top Quartile"
    /\ call.value.target_category = "Best-in-Class"

\* C13: a tag other than best, base or worst makes calculate_scenario raise at
\* once, before any adjusted input or benefit is computed; nothing is returned.
C13_UnknownTagRaises ==
    (Called("calculate_scenario") /\ call.args[1] \notin {"best", "base", "worst"}) =>
        /\ call.value.status = "raised"
        /\ call.value.error = "KeyError"
        /\ call.value.at = "scenario_multipliers"
        /\ call.value.computed = <<>>
        /\ DOMAIN call.value \cap {"cash_flow_df", "npv", "roi", "payback"} = {}

C13_Witness ==
    /\ Called("calculate_scenario")
    /\ call.args[1] = "Base"
    /\ call.value.status = "raised"

\* C14: with current_cycle_time = 0 every call of calculate_scenario raises the
\* division by zero of the cycle-time benefit; the exception reaches the caller,
\* which stops, and no result (year records, NPV, ROI, payback) is returned.
C14_ZeroCycleTimeRejected ==
    \A s \in Scenarios :
        (inputs.current_cycle_time = Zero /\ results[s].status # "none") =>
            /\ results[s].status = "raised"
            /\ results[s].error = "ZeroDivisionError"
            /\ results[s].at = "calculate_cycle_time_benefit"
            /\ DOMAIN results[s] \cap {"cash_flow_df", "npv", "roi", "payback"} = {}
            /\ pc = "failed"
            /\ shown = [metric |-> <<>>, cards |-> <<>>, chart |-> <<>>]
            /\ summary.status = "none"

C14_Witness ==
    /\ inputs.current_cycle_time = Zero
    /\ results["base"].status = "raised"
    /\ results["base"].error = "ZeroDivisionError"
    /\ pc = "failed"

\* |x - (whole + hundredths / 100)| <= 0.01, for x >= 0 and 1 <= hundredths <= 98.
WithinOneCent(x, whole, hundredths) ==
    /\ x[1] \div x[2] = whole
    /\ (hundredths - 1) * x[2] <= 100 * (x[1] % x[2])
    /\ 100 * (x[1] % x[2]) <= (hundredths + 1) * x[2]

\* C15: the working-capital benefit has cash_freed = (current_dso -
\* target_dso) / 365 x annual_revenue and annual_benefit = cash_freed x WACC;
\* in the base scenario of volume 50000, order value 2500, DSO 45 to 35 and
\* WACC 0.08 the annual revenue is 125,000,000, cash_freed is 3,424,657.53 and
\* annual_benefit is 273,972.60, to the cent.
C15_WorkingCapital ==
    Called("working_capital_of_scenario") =>
        LET wc == call.value.working_capital
            annual_revenue == call.value.annual_revenue
        IN  /\ annual_revenue =
                   RMul(inputs.annual_order_volume, inputs.average_order_value)
            /\ wc.cash_freed =
                   RMul(RDiv(wc.dso_improvement_days, Num(365)), annual_revenue)
            /\ wc.cash_freed = RSub(wc.current_ar, wc.target_ar)
            /\ wc.annual_benefit = RMul(wc.cash_freed, inputs.wacc)
            /\ call.args[1] = "base" =>
                   wc.cash_freed =
                       RMul(RDiv(RSub(inputs.current_dso, inputs.target_dso), Num(365)),
                            annual_revenue)
            /\ (call.args[1] = "base" /\ inputs = DefaultInputs) =>
                   /\ annual_revenue = Num(125000000)
                   /\ WithinOneCent(wc.cash_freed, 3424657, 53)
                   /\ WithinOneCent(wc.annual_benefit, 273972, 60)

C15_Witness ==
    /\ Called("working_capital_of_scenario")
    /\ call.args[1] = "base"
    /\ inputs = DefaultInputs
    /\ call.value.annual_revenue = Num(125000000)
    /\ call.value.working_capital.annual_benefit # Zero

\* The years whose cumulative_cf is positive, and the first of them.
PositiveYears(df) == {y \in 0..(Len(df) - 1) : RPos(CumAt(df, y))}

FirstPositiveYear(df) ==
    CHOOSE y \in PositiveYears(df) : \A z \in PositiveYears(df) : y <= z

\* C16: payback is absent exactly when no year has a positive cumulative_cf;
\* otherwise, with i the first such year, it is 0 when i = 0 and
\* (i - 1) + |cumulative_cf[i-1]| / (cumulative_cf[i] - cumulative_cf[i-1])
\* when i > 0, whatever the later years hold.
C16_PaybackFromFirstCrossing ==
    \A s \in Scenarios : Returned(s) =>
        LET df == results[s].cash_flow_df
            payback == results[s].payback
        IN  /\ payback = None <=> PositiveYears(df) = {}
            /\ PositiveYears(df) # {} =>
                   LET i == FirstPositiveYear(df)
                   IN  IF i = 0 THEN payback = Zero
                       ELSE payback =
                                RAdd(Num(i - 1),
                                     RDiv(RAbs(CumAt(df, i - 1)),
                                          RSub(CumAt(df, i), CumAt(df, i - 1))))

C16_Witness ==
    \E s \in Scenarios :
        /\ Returned(s)
        /\ Cardinality(PositiveYears(results[s].cash_flow_df)) >= 2
        /\ FirstPositiveYear(results[s].cash_flow_df) >= 2
        /\ results[s].payback # None
        /\ RLt(Num(1), results[s].payback)

\* C17: the outlays of a returned result follow the fixed schedule.  Year 0:
\* 30% of initial_investment plus 50% of change_management_cost, no
\* maintenance.  Year 1: 50% of initial_investment plus 50% of
\* change_management_cost plus integration_cost, half the annual_maintenance.
\* Year 2: 20% of initial_investment, the annual_maintenance.  Year y >= 3: no
\* investment, annual_maintenance x 1.02^(y-2).
C17_OutlaySchedule ==
    \A s \in Scenarios : Returned(s) =>
        LET df == results[s].cash_flow_df
        IN  /\ df[1].investment =
                   RAdd(RMul(Rat(3, 10), inputs.initial_investment),
                        RMul(Rat(1, 2), inputs.change_management_cost))
            /\ df[1].maintenance = Zero
            /\ df[2].investment =
                   RAdd(RAdd(RMul(Rat(1, 2), inputs.initial_investment),
                             RMul(Rat(1, 2), inputs.change_management_cost)),
                        inputs.integration_cost)
            /\ df[2].maintenance = RMul(Rat(1, 2), inputs.annual_maintenance)
            /\ df[3].investment = RMul(Rat(1, 5), inputs.initial_investment)
            /\ df[3].maintenance = inputs.annual_maintenance
            /\ \A n \in 4..Len(df) :
                   /\ df[n].investment = Zero
                   /\ df[n].maintenance =
                          RMul(inputs.annual_maintenance, RPow(Rat(51, 50), df[n].year - 2))

C17_Witness ==
    \E s \in Scenarios :
        /\ Returned(s)
        /\ inputs.time_horizon = 4
        /\ inputs.initial_investment # Zero
        /\ inputs.change_management_cost # Zero
        /\ inputs.integration_cost # Zero
        /\ results[s].cash_flow_df[5].maintenance # inputs.annual_maintenance

\* C18: in every year record net_cf = benefits - investment - maintenance and
\* discounted_cf = net_cf / (1 + WACC)^year, so that year 0 is not discounted,
\* and the NPV is the sum of discounted_cf over the records.
C18_NetDiscountedNpv ==
    \A s \in Scenarios : Returned(s) =>
        LET df == results[s].cash_flow_df
        IN  /\ \A n \in 1..Len(df) :
                   /\ df[n].net_cf =
                          RSub(RSub(df[n].benefits, df[n].investment), df[n].maintenance)
                   /\ df[n].discounted_cf =
                          RDiv(df[n].net_cf, RPow(RAdd(One, inputs.wacc), df[n].year))
            /\ df[1].discounted_cf = df[1].net_cf
            /\ results[s].npv = SumOver(df, "discounted_cf", Len(df))

C18_Witness ==
    \E s \in Scenarios :
        /\ Returned(s)
        /\ inputs.wacc # Zero
        /\ inputs.annual_maintenance # Zero
        /\ results[s].cash_flow_df[1].net_cf # Zero
        /\ results[s].cash_flow_df[4].discounted_cf # results[s].cash_flow_df[4].net_cf

\* The multiplier table as the documentation states it.
StatedMultipliers ==
    [best |-> [adoption |-> Rat(19, 20), performance |-> Rat(11, 10)],
     base |-> [adoption |-> Rat(3, 4), performance |-> One],
     worst |-> [adoption |-> Rat(1, 2), performance |-> Rat(4, 5)]]

TowardsLower(current, target, p) == RSub(current, RMul(RSub(current, target), p))

TowardsHigher(current, target, p) == RAdd(current, RMul(RSub(target, current), p))

StatedTargets(inp, p) ==
    [target_dso |-> TowardsLower(inp.current_dso, inp.target_dso, p),
     target_cycle_time |->
         TowardsLower(inp.current_cycle_time, inp.target_cycle_time, p),
     target_revenue_leakage |->
         TowardsLower(inp.current_revenue_leakage, inp.target_revenue_leakage, p),
     target_cost_per_order |->
         TowardsLower(inp.current_cost_per_order, inp.target_cost_per_order, p),
     target_perfect_order_rate |->
         TowardsHigher(inp.current_perfect_order_rate,
                       inp.target_perfect_order_rate, p),
     target_stp_rate |->
         TowardsHigher(inp.current_stp_rate, inp.target_stp_rate, p)]

TargetFields == DOMAIN StatedTargets(BaseInputs, One)

\* The improvements a result reports are the ones between the current metrics
\* and the targets t.
ReportsTargets(r, inp, t) ==
    /\ r.working_capital.dso_improvement_days = RSub(inp.current_dso, t.target_dso)
    /\ r.cycle_time.cycle_time_reduction_days =
           RSub(inp.current_cycle_time, t.target_cycle_time)
    /\ r.revenue_leakage.leakage_reduction =
           RSub(inp.current_revenue_leakage, t.target_revenue_leakage)
    /\ r.cost_reduction.cost_reduction_per_order =
           RSub(inp.current_cost_per_order, t.target_cost_per_order)
    /\ r.error_reduction.error_rate_improvement =
           RSub(t.target_perfect_order_rate, inp.current_perfect_order_rate)
    /\ r.labor_automation.stp_improvement =
           RSub(t.target_stp_rate, inp.current_stp_rate)

\* C19: every scenario reports the table's adoption and performance, its adjusted
\* targets are current - (current - target) x performance for DSO, cycle time,
\* leakage and cost per order and current + (target - current) x performance
\* for the perfect-order and straight-through rates, and in the base scenario
\* they are the original targets.  (Equalities are those of exact arithmetic;
\* in binary floating point the base targets can differ from the originals in
\* the last bit, e.g. 0.03 - (0.03 - 0.01) * 1.0.)
C19_AdjustedTargets ==
    \A s \in Scenarios : Returned(s) =>
        /\ results[s].adoption_rate = StatedMultipliers[s].adoption
        /\ results[s].performance_multiplier = StatedMultipliers[s].performance
        /\ \A f \in TargetFields :
               adjusted_inputs(inputs, results[s].performance_multiplier)[f] =
                   StatedTargets(inputs, StatedMultipliers[s].performance)[f]
        /\ ReportsTargets(results[s], inputs,
                          StatedTargets(inputs, StatedMultipliers[s].performance))
        /\ s = "base" =>
               \A f \in TargetFields :
                   adjusted_inputs(inputs, results[s].performance_multiplier)[f] =
                       inputs[f]

C19_Witness ==
    /\ AllReturned
    /\ \A s \in {"best", "worst"} : \A f \in TargetFields :
           adjusted_inputs(inputs, results[s].performance_multiplier)[f] # inputs[f]
    /\ ReportsTargets(results["base"], inputs, inputs)

\* The fields the documentation lists as copied.
CopiedFields ==
    {"annual_order_volume", "average_order_value", "profit_margin",
     "current_dso", "current_perfect_order_rate", "current_cycle_time",
     "current_revenue_leakage", "current_cost_per_order", "current_stp_rate",
     "avg_rework_cost", "fully_loaded_hourly_rate", "avg_manual_processing_time",
     "initial_investment", "annual_maintenance", "change_management_cost",
     "integration_cost", "wacc", "tax_rate", "time_horizon",
     "pilot_duration_months", "limited_production_months", "full_production_month"}

CopiedUnchanged(adj, inp) ==
    /\ DOMAIN adj = DOMAIN inp
    /\ DOMAIN inp = CopiedFields \cup TargetFields
    /\ \A f \in CopiedFields : adj[f] = inp[f]

\* C20: the adjusted inputs of every scenario differ from the inputs only in
\* the six targets; volume, order value, margin, the current metrics, the cost
\* and investment constants, WACC, tax rate, horizon and month counts are
\* copied, and the result's revenue, receivables and horizon are those of the
\* inputs.
C20_OnlyTargetsAdjusted ==
    \A s \in Scenarios : Returned(s) =>
        /\ CopiedUnchanged(adjusted_inputs(inputs, results[s].performance_multiplier),
                           inputs)
        /\ results[s].annual_revenue =
               RMul(inputs.annual_order_volume, inputs.average_order_value)
        /\ results[s].working_capital.current_ar =
               RMul(RDiv(results[s].annual_revenue, Num(365)), inputs.current_dso)
        /\ Len(results[s].cash_flow_df) = inputs.time_horizon + 1

C20_Witness ==
    /\ Returned("best")
    /\ Returned("worst")
    /\ adjusted_inputs(inputs, results["best"].performance_multiplier) # inputs
    /\ adjusted_inputs(inputs, results["worst"].performance_multiplier) # inputs
    /\ inputs.wacc # Zero
    /\ inputs.initial_investment # Zero
    /\ CopiedUnchanged(adjusted_inputs(inputs, results["worst"].performance_multiplier),
                       inputs)

\* C21: total_investment is the sum of investment plus the sum of maintenance
\* over the year records, total_benefits is the sum of benefits, and ROI is
\* (total_benefits - total_investment) / total_investment x 100, or 0 when
\* total_investment is 0.
C21_TotalsAndRoi ==
    \A s \in Scenarios : Returned(s) =>
        /\ results[s].total_investment =
               RAdd(SumOver(results[s].cash_flow_df, "investment",
                            Len(results[s].cash_flow_df)),
                    SumOver(results[s].cash_flow_df, "maintenance",
                            Len(results[s].cash_flow_df)))
        /\ results[s].total_benefits =
               SumOver(results[s].cash_flow_df, "benefits",
                       Len(results[s].cash_flow_df))
        /\ results[s].roi =
               IF results[s].total_investment = Zero
               THEN Zero
               ELSE RMul(RDiv(RSub(results[s].total_benefits,
                                   results[s].total_investment),
                              results[s].total_investment), Num(100))

\* One scenario with nothing invested and benefits to report, beside which
\* the inputs with an investment and upkeep are explored too.
C21_Witness ==
    \E s \in Scenarios :
        /\ Returned(s)
        /\ results[s].total_investment = Zero
        /\ results[s].total_benefits # Zero
        /\ results[s].roi = Zero

\* The data-model ranges with every target an improvement on its current value.
WithinDataModel(inp) ==
    /\ ~ViolatesDataModel(inp)
    /\ TargetsImprove(inp)
    /\ RLe(inp.target_cost_per_order, inp.current_cost_per_order)

TargetsInRange(adj) ==
    /\ RLe(adj.target_perfect_order_rate, One)
    /\ RLe(adj.target_stp_rate, One)
    /\ RNonNeg(adj.target_revenue_leakage)
    /\ RPos(adj.target_dso)
    /\ RPos(adj.target_cycle_time)
    /\ RPos(adj.target_cost_per_order)

\* C22: for inputs within the data-model ranges the adjusted targets of every
\* scenario stay within them: rates at most 1, leakage at least 0, DSO, cycle
\* time and cost per order above 0; so no result reports a negative number of
\* manual touches left at the target.
C22_AdjustedTargetsInRange ==
    \A s \in Scenarios :
        (WithinDataModel(inputs) /\ Returned(s)) =>
            /\ TargetsInRange(adjusted_inputs(inputs,
                                              results[s].performance_multiplier))
            /\ RNonNeg(results[s].labor_automation.target_manual_touches)

\* C23: once cumulative_cf is positive in a year of the schedule it is positive
\* in every later year, and a payback of 0 means cumulative_cf is positive in
\* the years 1..time_horizon.
C23_StaysRecovered ==
    \A s \in Scenarios : Returned(s) =>
        /\ \A y \in PositiveYears(results[s].cash_flow_df) :
               \A z \in y..(Len(results[s].cash_flow_df) - 1) :
                   RPos(CumAt(results[s].cash_flow_df, z))
        /\ results[s].payback = Zero =>
               \A z \in 1..inputs.time_horizon :
                   RPos(CumAt(results[s].cash_flow_df, z))

\* C24: with current_cost_per_order = 0 every call of calculate_scenario, for
\* every scenario, raises the division by zero of the cost-per-order benefit
\* after the five benefits that enter total_annual_benefit were computed, and
\* returns no result.
C24_ZeroCostPerOrderRejected ==
    \A s \in Scenarios :
        (inputs.current_cost_per_order = Zero /\ results[s].status # "none") =>
            /\ results[s].status = "raised"
            /\ results[s].error = "ZeroDivisionError"
            /\ inputs.current_cycle_time # Zero =>
                   /\ results[s].at = "calculate_cost_per_order_benefit"
                   /\ results[s].computed =
                          <<"working_capital", "error_reduction", "revenue_leakage",
                            "labor_automation", "cycle_time">>
            /\ DOMAIN results[s] \cap
                   {"cash_flow_df", "npv", "roi", "payback", "total_annual_benefit"} = {}
            /\ pc = "failed"

C24_Witness ==
    \E s \in Scenarios :
        /\ inputs.current_cost_per_order = Zero
        /\ inputs.current_cycle_time # Zero
        /\ inputs.initial_investment # Zero
        /\ results[s].status = "raised"
        /\ results[s].at = "calculate_cost_per_order_benefit"
        /\ pc = "failed"

\* What a display shows for a payback when 99 stands for an absent one only.
PaybackOrPlaceholder(r) == IF r.payback = None THEN Num(99) ELSE r.payback

\* C25: the metric card, the scenario cards and the comparison chart show 99
\* for a payback only when it is absent; a payback of 0 years is shown as 0.
C25_ZeroPaybackShown ==
    /\ Len(shown.metric) = 1 =>
           shown.metric[1] = PaybackOrPlaceholder(results["base"])
    /\ Len(shown.cards) = 3 =>
           /\ shown.cards[1] = PaybackOrPlaceholder(results["best"])
           /\ shown.cards[2] = PaybackOrPlaceholder(results["base"])
           /\ shown.cards[3] = PaybackOrPlaceholder(results["worst"])
    /\ Len(shown.chart) = 3 =>
           /\ shown.chart[1] = PaybackOrPlaceholder(results["best"])
           /\ shown.chart[2] = PaybackOrPlaceholder(results["base"])
           /\ shown.chart[3] = PaybackOrPlaceholder(results["worst"])

\* C26: for inputs within the data model the executive summary completes for
\* every base result, also for one whose total_annual_benefit is 0, and its
\* break-even line is rendered.
C26_SummaryCompletes ==
    (/\ WithinDataModel(inputs)
     /\ AllReturned
     /\ pc \in {"done", "failed"}) =>
        /\ summary.status = "rendered"
        /\ summary.break_even = break_even_pct(results["base"])

=============================================================================
